---- MODULE Spec2Model ----
(***************************************************************************)
(* Model of the document ingestion and retrieval engine:                   *)
(*   knowledge_base/builders/pdf_processor.py   (PDFProcessor)             *)
(*   knowledge_base/storage/chroma_manager.py   (ChromaManager)            *)
(*   knowledge_base/retrieval/vector_retriever.py (VectorRetriever)        *)
(*                                                                         *)
(* PDFProcessor and VectorRetriever construct their ChromaManager with the  *)
(* keyword embedding_function, which ChromaManager.__init__ (parameter     *)
(* embed_model) does not accept, and the retriever reads                   *)
(* chroma_db.collection and chroma_db.embedding_function, which            *)
(* ChromaManager does not define.  The methods are modelled on an object   *)
(* whose chroma_db provides add_documents, collection and                  *)
(* embedding_function, as the unit tests' patches presuppose.              *)
(*                                                                         *)
(* Texts are sequences of one-character strings.  Python indices are kept  *)
(* 0-based in the loop counters (i, bi) and converted when a sequence is   *)
(* sliced.                                                                 *)
(***************************************************************************)
EXTENDS Integers, Sequences, FiniteSets, TLC

(***************************************************************************)
(* Bounds of the model.                                                    *)
(***************************************************************************)
MaxFiles == 3          \* entries in the scanned directory
MaxGroupNum == 2       \* largest file_group_num tried
MaxBatchNum == 2       \* largest batch_num tried
MaxDirect == 3         \* longest list handed to a direct store call
MaxStored == 2         \* entries in the retriever's collection
MaxTopK == 2           \* largest top_k of a retriever
MaxClock == 2          \* largest reading of the clock
MaxInputs == 2         \* longest list passed to one add_documents call
MaxIds == 4            \* identifiers a collection hands out
MaxPageLen == 7        \* longest page text split
MaxChunk == 4          \* largest chunk size tried
MaxApiStored == 11     \* matching entries in the collection the API serves

(***************************************************************************)
(* Python str / list helpers.                                              *)
(***************************************************************************)
Min(a, b) == IF a <= b THEN a ELSE b

\* str.lower() of one character
lower_char(ch) ==
    CASE ch = "A" -> "a"
      [] ch = "B" -> "b"
      [] ch = "P" -> "p"
      [] ch = "D" -> "d"
      [] ch = "F" -> "f"
      [] OTHER -> ch

\* str.lower()
lower(s) == [n \in 1..Len(s) |-> lower_char(s[n])]

\* str.endswith(suffix)
endswith(s, suffix) ==
    /\ Len(s) >= Len(suffix)
    /\ SubSeq(s, Len(s) - Len(suffix) + 1, Len(s)) = suffix

\* Python's `sub in s` on strings
str_in(sub, s) ==
    \E n \in 0..(Len(s) - Len(sub)) : SubSeq(s, n + 1, n + Len(sub)) = sub

\* Python slice xs[lo:hi] with 0-based lo, hi (hi clipped to len)
Slice(xs, lo, hi) == SubSeq(xs, lo + 1, Min(hi, Len(xs)))

\* list.extend applied over a sequence of lists
RECURSIVE Flatten(_)
Flatten(xss) ==
    IF xss = <<>> THEN <<>> ELSE Head(xss) \o Flatten(Tail(xss))

\* the elements of a sequence
Range(xs) == {xs[n] : n \in 1..Len(xs)}

\* Python's s.find(sub, start): 0-based index of the first occurrence at or
\* after start, -1 when there is none
str_find(s, sub, start) ==
    LET hits == {n \in start..(Len(s) - Len(sub)) :
                    SubSeq(s, n + 1, n + Len(sub)) = sub}
    IN  IF hits = {} THEN -1
        ELSE CHOOSE n \in hits : \A m \in hits : n <= m

Whitespace == {" ", "\n"}

\* str.strip()
RECURSIVE lstrip(_)
lstrip(s) ==
    IF s # <<>> /\ Head(s) \in Whitespace THEN lstrip(Tail(s)) ELSE s

RECURSIVE rstrip(_)
rstrip(s) ==
    IF s # <<>> /\ s[Len(s)] \in Whitespace
    THEN rstrip(SubSeq(s, 1, Len(s) - 1)) ELSE s

strip(s) == rstrip(lstrip(s))

(***************************************************************************)
(* The text splitter configured in PDFProcessor.split_text:                *)
(* RecursiveCharacterTextSplitter(chunk_size, chunk_overlap, len,          *)
(* add_start_index=True, separators=[...]), keep_separator at its default  *)
(* (the separator stays at the head of the piece that follows it).         *)
(* The full-width marks are written JU, TAN, WEN, FEN.                     *)
(***************************************************************************)
separators ==
    << <<"\n", "\n">>, <<"\n">>, <<"JU">>, <<"TAN">>, <<"WEN">>, <<"FEN">>,
       <<" ">>, <<>> >>

\* 0-based starts of the leftmost non-overlapping matches of sep from p on
RECURSIVE Matches(_, _, _)
Matches(text, sep, p) ==
    LET k == str_find(text, sep, p)
    IN  IF k = -1 THEN <<>> ELSE <<k>> \o Matches(text, sep, k + Len(sep))

\* the pieces between consecutive cut points, each later piece led by sep
RECURSIVE Pieces(_, _, _)
Pieces(text, from, cuts) ==
    IF cuts = <<>> THEN <<Slice(text, from, Len(text))>>
    ELSE <<Slice(text, from, Head(cuts))>> \o Pieces(text, Head(cuts), Tail(cuts))

\* _split_text_with_regex(text, separator, keep_separator=True)
split_text_with_regex(text, sep) ==
    LET raw == IF sep = <<>>
               THEN [n \in 1..Len(text) |-> <<text[n]>>]
               ELSE Pieces(text, 0, Matches(text, sep, 0))
    IN  SelectSeq(raw, LAMBDA s : s # <<>>)

\* separator.join(docs)
RECURSIVE str_join(_, _)
str_join(sep, parts) ==
    IF parts = <<>> THEN <<>>
    ELSE IF Len(parts) = 1 THEN Head(parts)
    ELSE Head(parts) \o sep \o str_join(sep, Tail(parts))

\* _join_docs without the strip (strip_whitespace off)
join_docs_raw(parts, sep) ==
    LET text == str_join(sep, parts)
    IN  IF text = <<>> THEN <<>> ELSE <<text>>

\* TextSplitter._join_docs: the joined, stripped text as a one-element list,
\* or the empty list where the library returns None
join_docs(parts, sep) ==
    LET text == strip(str_join(sep, parts))
    IN  IF text = <<>> THEN <<>> ELSE <<text>>

\* the `while` of _merge_splits that drops pieces from the head of the
\* current window; yields <<current_doc, total>>
RECURSIVE pop_window(_, _, _, _, _, _)
pop_window(current_doc, total, len_d, sep_len, c, o) ==
    IF \/ total > o
       \/ /\ total + len_d + (IF Len(current_doc) > 0 THEN sep_len ELSE 0) > c
          /\ total > 0
    THEN pop_window(Tail(current_doc),
                    total - (Len(Head(current_doc))
                             + (IF Len(current_doc) > 1 THEN sep_len ELSE 0)),
                    len_d, sep_len, c, o)
    ELSE <<current_doc, total>>

\* TextSplitter._merge_splits, as a loop over splits carrying
\* (docs, current_doc, total)
RECURSIVE merge_loop(_, _, _, _, _, _, _)
merge_loop(splits, sep, c, o, docs, current_doc, total) ==
    IF splits = <<>> THEN docs \o join_docs(current_doc, sep)
    ELSE
      LET d == Head(splits)
          len_d == Len(d)
          over == total + len_d
                    + (IF Len(current_doc) > 0 THEN Len(sep) ELSE 0) > c
          flush == over /\ Len(current_doc) > 0
          docs1 == IF flush THEN docs \o join_docs(current_doc, sep) ELSE docs
          win == IF flush
                 THEN pop_window(current_doc, total, len_d, Len(sep), c, o)
                 ELSE <<current_doc, total>>
          cur2 == Append(win[1], d)
          tot2 == win[2] + len_d + (IF Len(cur2) > 1 THEN Len(sep) ELSE 0)
      IN  merge_loop(Tail(splits), sep, c, o, docs1, cur2, tot2)

merge_splits(splits, sep, c, o) == merge_loop(splits, sep, c, o, <<>>, <<>>, 0)

\* index (1-based) of the separator _split_text picks: the first that is ""
\* or occurs in the text
RECURSIVE pick_separator(_, _, _)
pick_separator(text, seps, n) ==
    IF n > Len(seps) THEN 0
    ELSE IF seps[n] = <<>> \/ str_in(seps[n], text) THEN n
    ELSE pick_separator(text, seps, n + 1)

\* RecursiveCharacterTextSplitter._split_text
RECURSIVE split_text_rec(_, _, _, _)
RECURSIVE split_loop(_, _, _, _, _, _)
split_text_rec(text, seps, c, o) ==
    LET n == pick_separator(text, seps, 1)
        separator == IF n = 0 THEN seps[Len(seps)] ELSE seps[n]
        new_separators == IF n = 0 \/ seps[n] = <<>> THEN <<>>
                          ELSE SubSeq(seps, n + 1, Len(seps))
    IN  split_loop(split_text_with_regex(text, separator), new_separators,
                   c, o, <<>>, <<>>)

\* the `for s in splits` of _split_text carrying (_good_splits, final_chunks);
\* with keep_separator the pieces are merged with the empty separator
split_loop(splits, new_separators, c, o, good, final) ==
    IF splits = <<>>
    THEN IF good # <<>> THEN final \o merge_splits(good, <<>>, c, o) ELSE final
    ELSE
      LET s == Head(splits)
      IN  IF Len(s) < c
          THEN split_loop(Tail(splits), new_separators, c, o,
                          Append(good, s), final)
          ELSE
            LET final1 == IF good # <<>>
                          THEN final \o merge_splits(good, <<>>, c, o)
                          ELSE final
                final2 == IF new_separators = <<>>
                          THEN Append(final1, s)
                          ELSE final1 \o split_text_rec(s, new_separators, c, o)
            IN  split_loop(Tail(splits), new_separators, c, o, <<>>, final2)

\* TextSplitter.create_documents for one page with add_start_index=True:
\* the loop over the chunks carrying (index, previous_chunk_len)
RECURSIVE index_chunks(_, _, _, _, _, _)
index_chunks(page, chunks, index, previous_chunk_len, o, out) ==
    IF chunks = <<>> THEN out
    ELSE
      LET chunk == Head(chunks)
          offset == index + previous_chunk_len - o
          idx == str_find(page.page_content, chunk,
                          IF offset > 0 THEN offset ELSE 0)
          doc == [page_content |-> chunk,
                  source |-> page.source,
                  page |-> page.page,
                  start_index |-> idx]
      IN  index_chunks(page, Tail(chunks), idx, Len(chunk), o, Append(out, doc))

\* TextSplitter.split_documents: every page split and indexed, in page order
RECURSIVE split_documents(_, _, _)
split_documents(documents, c, o) ==
    IF documents = <<>> THEN <<>>
    ELSE index_chunks(Head(documents),
                      split_text_rec(Head(documents).page_content,
                                     separators, c, o),
                      0, 0, o, <<>>)
         \o split_documents(Tail(documents), c, o)

\* the splitter's constructor rejects an overlap larger than the chunk size
splitter_rejects(c, o) == o > c

(***************************************************************************)
(* State.                                                                  *)
(***************************************************************************)
VARIABLES
    entry,           \* the public method the caller invoked
    pc,              \* position of the call in progress
    directory,       \* os.listdir(self.directory) with what each entry holds
    file_group_num,  \* self.file_group_num
    batch_num,       \* self.batch_num
    chunksize,       \* self.chunksize
    overlap,         \* self.overlap
    pdf_files,       \* process_pdfs: the scanned paths
    i,               \* process_pdfs: start of the current group (0-based)
    group,           \* process_pdfs_group: pdf_files_group
    j,               \* process_pdfs_group: files of the group loaded so far
    pdf_contents,    \* process_pdfs_group: pages loaded so far
    docs,            \* insert_docs_chromadb: the list being inserted
    batch_size,      \* insert_docs_chromadb: batch_size
    bi,              \* insert_docs_chromadb: start of the next batch (0-based)
    collection,      \* what the store holds, in insertion order
    collection0,     \* history: what the store held before the call
    next_id,         \* identifiers handed out so far
    attempted,       \* history: paths passed to load_pdf_content
    group_calls,     \* history: [files, outcome, batches_ok] per group call
    add_calls,       \* history: batches passed to add_documents by this insert
    store_calls,     \* history: calls of the underlying store.add_documents
    write_failed,    \* history: some add_documents call has raised
    log,             \* history: logger.error / logger.warning records
    result,          \* how the entry call ended: "none", "returned", "raised",
                     \* or the exception a constructor or endpoint ended with
    top_k,           \* VectorRetriever.top_k
    op,              \* retriever: the last call, with its arguments
    ret,             \* retriever: what the last call returned
    query_calls,     \* history: n_results of each collection.query of the call
    store_result,    \* history: what the store answered to the last call
    config,          \* ChromaManager.__init__: the parameters it was given
    client,          \* ChromaManager.client: "none", "created" or "failed"
    store_obj,       \* ChromaManager.store: "none", "created" or "failed"
    returned,        \* history: identifiers returned by earlier add_documents
    page_text,       \* split_text: the page text being split
    page_chunks,     \* split_text: the chunks produced
    clock,           \* the values time.time() can read during the call
    start_time,      \* insert_docs_chromadb: start_time
    tpm,             \* insert_docs_chromadb: the last throughput computed
    request,         \* API: the request being served
    response,        \* API: the response given
    retriever_calls  \* history: [name, raised] per retriever call of the endpoint

ingest_vars ==
    <<entry, pc, directory, file_group_num, batch_num, chunksize, overlap,
      pdf_files, i, group, j, pdf_contents, docs, batch_size, bi, collection,
      collection0, next_id, attempted, group_calls, add_calls, store_calls, write_failed,
      log, result>>

retr_vars == <<top_k, op, ret, query_calls, store_result>>

ext_vars ==
    <<config, client, store_obj, returned, page_text, page_chunks, request,
      response,
      retriever_calls>>

clock_vars == <<clock, start_time, tpm>>

vars == <<ingest_vars, retr_vars, ext_vars, clock_vars>>

(***************************************************************************)
(* The directories and documents the runs are tried on.                    *)
(***************************************************************************)
\* name endings: one the scan accepts (in mixed case), one it passes over
PdfEnding == <<".", "P", "d", "F">>
OtherEnding == <<"x", "p", "d", "f">>

PageTexts == { <<>>, <<"a", "b", "c", "d", "e">> }

\* what a directory entry holds: unreadable, or a sequence of page texts
FileContents ==
    {[loadable |-> FALSE, pages |-> <<>>], [loadable |-> TRUE, pages |-> <<>>]}
      \cup {[loadable |-> TRUE, pages |-> <<t>>] : t \in PageTexts}

\* the n-th entry is named <n><extension>, so names are distinct; what an
\* entry that the scan passes over holds is never read
EntryChoices(n) ==
    {[name |-> <<ToString(n)>> \o PdfEnding, loadable |-> f.loadable,
      pages |-> f.pages] : f \in FileContents}
      \cup {[name |-> <<ToString(n)>> \o OtherEnding,
              loadable |-> FALSE, pages |-> <<>>]}

Listings ==
    UNION {{d \in [1..n -> UNION {EntryChoices(m) : m \in 1..n}] :
               \A m \in 1..n : d[m] \in EntryChoices(m)} : n \in 0..MaxFiles}

\* a list of n distinct documents for a direct call
DirectDocs(n) ==
    [m \in 1..n |-> [page_content |-> <<"d">>, source |-> <<"direct">>,
                     page |-> 0, start_index |-> m]]

DirEntry(path) == CHOOSE e \in Range(directory) : e.name = path

(***************************************************************************)
(* PDFProcessor.load_pdf_files: the entries whose lower-cased name ends in *)
(* ".pdf", in listing order.                                               *)
(***************************************************************************)
\* the suffix test without its dot
is_pdf_no_dot(name) == endswith(lower(name), <<"p", "d", "f">>)

is_pdf(name) == endswith(lower(name), <<".", "p", "d", "f">>)

load_pdf_files(listing) ==
    LET names == [n \in 1..Len(listing) |-> listing[n].name]
    IN  SelectSeq(names, is_pdf)

\* PyMuPDFLoader(path).load(): one Document per page
load_pdf_content(path) ==
    LET e == DirEntry(path)
    IN  [n \in 1..Len(e.pages) |->
            [page_content |-> e.pages[n], source |-> path, page |-> n - 1]]

(***************************************************************************)
(* ChromaManager.add_documents(docs).  ok says whether the underlying      *)
(* store.add_documents succeeds; when it fails, kept is the number of      *)
(* leading documents the store persisted before it raised.                 *)
(***************************************************************************)
with_ids(ds, first) ==
    [n \in 1..Len(ds) |-> [id |-> first + n - 1, doc |-> ds[n]]]

\* add_documents without its guard on the empty list
add_documents_unguarded(ds, ok, kept) ==
    IF ok
    THEN [ret |-> [n \in 1..Len(ds) |-> next_id + n - 1], raised |-> FALSE,
          store_called |-> TRUE, stored |-> with_ids(ds, next_id)]
    ELSE [ret |-> <<>>, raised |-> TRUE, store_called |-> TRUE,
          stored |-> with_ids(SubSeq(ds, 1, kept), next_id)]

add_documents(ds, ok, kept) ==
    IF ds = <<>>
    THEN [ret |-> <<>>, raised |-> FALSE, store_called |-> FALSE, stored |-> <<>>]
    ELSE IF ok
    THEN [ret |-> [n \in 1..Len(ds) |-> next_id + n - 1], raised |-> FALSE,
          store_called |-> TRUE, stored |-> with_ids(ds, next_id)]
    ELSE [ret |-> <<>>, raised |-> TRUE, store_called |-> TRUE,
          stored |-> with_ids(SubSeq(ds, 1, kept), next_id)]

(***************************************************************************)
(* Initial states: a freshly constructed PDFProcessor on which one public  *)
(* method is about to be called, over a persisted collection that already  *)
(* holds an entry.                                                         *)
(***************************************************************************)
\* the parts of the state a call does not use
InitExt ==
    /\ config = [server_type |-> "local"]
    /\ client = "created" /\ store_obj = "created"
    /\ returned = {}
    /\ page_text = <<>> /\ page_chunks = <<>>
    /\ request = [endpoint |-> "none"] /\ response = [status |-> 0]
    /\ retriever_calls = <<>>

\* no throughput computed yet
NoTpm == [elapsed |-> 0, rate |-> <<0, 1>>, error |-> FALSE]

\* the state of everything the call under study does not touch
InitIdle ==
    /\ directory = <<>>
    /\ file_group_num = 1 /\ batch_num = 1
    /\ batch_size = 1
    /\ pdf_files = <<>> /\ i = 0 /\ group = <<>> /\ j = 0
    /\ pdf_contents = <<>> /\ bi = 0
    /\ attempted = <<>> /\ group_calls = <<>> /\ add_calls = <<>>
    /\ store_calls = 0 /\ write_failed = FALSE /\ log = <<>>
    /\ result = "none"
    /\ op = [name |-> "none"] /\ ret = <<>>
    /\ query_calls = <<>> /\ store_result = <<>>
    /\ clock = {0} /\ start_time = 0 /\ tpm = NoTpm

InitCommon ==
    /\ pdf_files = <<>> /\ i = 0 /\ group = <<>> /\ j = 0
    /\ pdf_contents = <<>> /\ bi = 0
    /\ collection = with_ids(DirectDocs(1), 0)
    /\ collection0 = collection
    /\ next_id = 1
    /\ attempted = <<>> /\ group_calls = <<>> /\ add_calls = <<>>
    /\ store_calls = 0 /\ write_failed = FALSE /\ log = <<>>
    /\ result = "none"
    /\ top_k = 0 /\ op = [name |-> "none"] /\ ret = <<>>
    /\ query_calls = <<>> /\ store_result = <<>>
    /\ InitExt
    /\ start_time = 0 /\ tpm = NoTpm

InitProcessPdfs ==
    /\ entry = "process_pdfs" /\ pc = "process_pdfs"
    /\ directory \in Listings
    /\ file_group_num \in 1..MaxGroupNum
    /\ batch_num \in 1..MaxBatchNum
    /\ chunksize = 3
    /\ overlap \in {1, 4}
    /\ docs = <<>> /\ batch_size = batch_num
    /\ clock = {0}
    /\ InitCommon

InitDirect ==
    /\ entry \in {"insert_docs_chromadb", "add_documents"}
    /\ pc = IF entry = "add_documents" THEN "add_documents" ELSE "insert_entry"
    /\ directory = <<>>
    /\ file_group_num = 1 /\ batch_num = 1 /\ chunksize = 3 /\ overlap = 1
    /\ \E n \in 0..MaxDirect : docs = DirectDocs(n)
    /\ batch_size \in 1..MaxBatchNum
    /\ clock = {0}
    /\ InitCommon

Init == InitProcessPdfs \/ InitDirect

(***************************************************************************)
(* PDFProcessor.process_pdfs                                               *)
(***************************************************************************)
\* lines 213-217 and, when the scan raises, 228-230
ProcessPdfs ==
    /\ pc = "process_pdfs"
    /\ LET files == load_pdf_files(directory)
       IN  IF files = <<>>
           THEN /\ pc' = "Raised"
                /\ result' = "raised"
                /\ log' = log \o <<"no_pdf_files", "process_pdfs_failed">>
                /\ UNCHANGED <<pdf_files, i>>
           ELSE /\ pdf_files' = files
                /\ i' = 0
                /\ pc' = "group_loop"
                /\ UNCHANGED <<result, log>>
    /\ UNCHANGED <<collection0, retr_vars, ext_vars, clock_vars>>
    /\ UNCHANGED <<entry, directory, file_group_num, batch_num, chunksize,
                   overlap, group, j, pdf_contents, docs, batch_size, bi,
                   collection, next_id, attempted, group_calls, add_calls,
                   store_calls, write_failed>>

\* the head of the for loop, lines 220-224, and its exit, lines 226-227
GroupLoop ==
    /\ pc = "group_loop"
    /\ IF i < Len(pdf_files)
       THEN /\ group' = Slice(pdf_files, i, i + file_group_num)
            /\ group_calls' = Append(group_calls,
                                     [files |-> group', outcome |-> "running",
                                      batches_ok |-> 0])
            /\ j' = 0
            /\ pdf_contents' = <<>>
            /\ pc' = "load"
            /\ UNCHANGED result
       ELSE /\ pc' = "Done"
            /\ result' = "returned"
            /\ UNCHANGED <<group, group_calls, j, pdf_contents>>
    /\ UNCHANGED <<collection0, retr_vars, ext_vars, clock_vars>>
    /\ UNCHANGED <<entry, directory, file_group_num, batch_num, chunksize,
                   overlap, pdf_files, i, docs, batch_size, bi, collection,
                   next_id, attempted, add_calls, store_calls, write_failed,
                   log>>

\* the outcome of the running group call, recorded when it ends, with the
\* number of batches it wrote
EndGroup(outcome, batches_ok) ==
    [group_calls EXCEPT ![Len(group_calls)] =
        [@ EXCEPT !.outcome = outcome, !.batches_ok = batches_ok]]

(***************************************************************************)
(* PDFProcessor.process_pdfs_group                                         *)
(***************************************************************************)
\* one turn of the loading loop, lines 193-195; a load failure (line 117)
\* leaves the try block for the handler at lines 204-205
LoadPdfContent ==
    /\ pc = "load"
    /\ j < Len(group)
    /\ LET pdf_path == group[j + 1]
       IN  /\ attempted' = Append(attempted, pdf_path)
           /\ IF DirEntry(pdf_path).loadable
              THEN /\ pdf_contents' = pdf_contents \o load_pdf_content(pdf_path)
                   /\ j' = j + 1
                   /\ pc' = IF j + 1 < Len(group) THEN "load" ELSE "split"
                   /\ UNCHANGED <<log, group_calls>>
              ELSE /\ log' = log \o <<"load_failed", "group_failed">>
                   /\ group_calls' = EndGroup("load_failed", 0)
                   /\ pc' = "group_return"
                   /\ UNCHANGED <<pdf_contents, j>>
    /\ UNCHANGED <<collection0, retr_vars, ext_vars, clock_vars>>
    /\ UNCHANGED <<entry, directory, file_group_num, batch_num, chunksize,
                   overlap, pdf_files, i, group, docs, batch_size, bi,
                   collection, next_id, add_calls, store_calls, write_failed,
                   result>>

\* lines 198-203: split what was loaded and hand the chunks to the insert
SplitText ==
    /\ pc = "split"
    /\ IF pdf_contents = <<>>
       THEN /\ pc' = "group_return"
            /\ group_calls' = EndGroup("ok", 0)
            /\ UNCHANGED <<docs, batch_size, log>>
       ELSE IF splitter_rejects(chunksize, overlap)
       THEN /\ pc' = "group_return"
            /\ group_calls' = EndGroup("split_failed", 0)
            /\ log' = log \o <<"group_failed">>
            /\ UNCHANGED <<docs, batch_size>>
       ELSE LET split == split_documents(pdf_contents, chunksize, overlap)
            IN  IF split = <<>>
                THEN /\ pc' = "group_return"
                     /\ group_calls' = EndGroup("ok", 0)
                     /\ UNCHANGED <<docs, batch_size, log>>
                ELSE /\ docs' = split
                     /\ batch_size' = batch_num
                     /\ pc' = "insert_entry"
                     /\ UNCHANGED <<group_calls, log>>
    /\ UNCHANGED <<collection0, retr_vars, ext_vars, clock_vars>>
    /\ UNCHANGED <<entry, directory, file_group_num, batch_num, chunksize,
                   overlap, pdf_files, i, group, j, pdf_contents, bi,
                   collection, next_id, attempted, add_calls, store_calls,
                   write_failed, result>>

\* process_pdfs_group has returned: the loop of process_pdfs steps on
GroupReturn ==
    /\ pc = "group_return"
    /\ i' = i + file_group_num
    /\ pc' = "group_loop"
    /\ UNCHANGED <<collection0, retr_vars, ext_vars, clock_vars>>
    /\ UNCHANGED <<entry, directory, file_group_num, batch_num, chunksize,
                   overlap, pdf_files, group, j, pdf_contents, docs,
                   batch_size, bi, collection, next_id, attempted, group_calls,
                   add_calls, store_calls, write_failed, log, result>>

(***************************************************************************)
(* PDFProcessor.insert_docs_chromadb                                       *)
(***************************************************************************)
\* lines 149-156
InsertEntry ==
    /\ pc = "insert_entry"
    /\ add_calls' = <<>>
    /\ bi' = 0
    /\ IF docs = <<>>
       THEN /\ log' = Append(log, "empty_insert")
            /\ pc' = "insert_returned"
            /\ UNCHANGED start_time
       ELSE /\ pc' = "insert_loop"
            /\ \E now \in clock : start_time' = now
            /\ UNCHANGED log
    /\ tpm' = NoTpm
    /\ UNCHANGED <<collection0, retr_vars, ext_vars, clock>>
    /\ UNCHANGED <<entry, directory, file_group_num, batch_num, chunksize,
                   overlap, pdf_files, i, group, j, pdf_contents, docs,
                   batch_size, collection, next_id, attempted, group_calls,
                   store_calls, write_failed, result>>

\* line 160: range(0, len(docs), batch_size) has a value after start
range_has_next_incl(start, stop, step) == start + step <= stop

range_has_next(start, stop, step) == start + step < stop

\* line 161 cut one short
next_batch_short(ds, start, size) == Slice(ds, start, start + size - 1)

\* line 161: batch = docs[i:i + batch_size]
next_batch(ds, start, size) == Slice(ds, start, start + size)

\* lines 168-169 dividing whatever the elapsed time is
throughput_unguarded(total_docs_inserted, elapsed_time) ==
    IF elapsed_time = 0
    THEN [elapsed |-> elapsed_time, rate |-> <<0, 1>>, error |-> TRUE]
    ELSE [elapsed |-> elapsed_time,
          rate |-> <<total_docs_inserted * 60, elapsed_time>>, error |-> FALSE]

\* lines 168-169: documents per minute as the fraction <<numerator,
\* denominator>>, 0 when no time has elapsed; error is a division by zero
throughput(total_docs_inserted, elapsed_time) ==
    IF elapsed_time > 0
    THEN [elapsed |-> elapsed_time,
          rate |-> <<total_docs_inserted * 60, elapsed_time>>, error |-> FALSE]
    ELSE [elapsed |-> elapsed_time, rate |-> <<0, 1>>, error |-> FALSE]

\* one turn of the batch loop, lines 160-176, with the add_documents call it
\* makes and the clock reading that follows it; a failed call, or an error
\* in the accounting, leaves through the handler at lines 179-181
InsertBatch ==
    /\ pc = "insert_loop"
    /\ LET batch == next_batch(docs, bi, batch_size)
       IN  \E ok \in BOOLEAN : \E kept \in 0..Len(batch) : \E now \in clock :
             /\ ok => kept = Len(batch)
             /\ LET r == add_documents(batch, ok, kept)
                    t == throughput(bi + Len(batch), now - start_time)
                IN  /\ add_calls' = Append(add_calls, batch)
                    /\ store_calls' = store_calls + (IF r.store_called THEN 1 ELSE 0)
                    /\ collection' = collection \o r.stored
                    /\ next_id' = next_id + Len(r.stored)
                    /\ IF r.raised
                       THEN /\ write_failed' = TRUE
                            /\ log' = log \o <<"add_failed", "insert_failed">>
                            /\ pc' = "insert_raised"
                            /\ UNCHANGED <<bi, tpm>>
                       ELSE IF t.error
                       THEN /\ log' = Append(log, "insert_failed")
                            /\ pc' = "insert_raised"
                            /\ tpm' = t
                            /\ UNCHANGED <<bi, write_failed>>
                       ELSE /\ bi' = bi + batch_size
                            /\ tpm' = t
                            /\ pc' = IF range_has_next(bi, Len(docs), batch_size)
                                     THEN "insert_loop" ELSE "insert_returned"
                            /\ UNCHANGED <<write_failed, log>>
    /\ UNCHANGED <<collection0, retr_vars, ext_vars, clock, start_time>>
    /\ UNCHANGED <<entry, directory, file_group_num, batch_num, chunksize,
                   overlap, pdf_files, i, group, j, pdf_contents, docs,
                   batch_size, attempted, group_calls, result>>

\* the handler of process_pdfs_group re-raising (line 207 enabled)
InsertReturnReraise ==
    /\ pc \in {"insert_returned", "insert_raised"}
    /\ IF entry = "process_pdfs" /\ pc = "insert_returned"
       THEN /\ pc' = "group_return"
            /\ group_calls' = EndGroup("ok", Len(add_calls))
            /\ UNCHANGED <<result, log>>
       ELSE /\ pc' = IF pc = "insert_raised" THEN "Raised" ELSE "Done"
            /\ result' = IF pc = "insert_raised" THEN "raised" ELSE "returned"
            /\ group_calls' = IF entry = "process_pdfs"
                               THEN EndGroup("write_failed", Len(add_calls) - 1)
                               ELSE group_calls
            /\ log' = IF entry = "process_pdfs"
                      THEN log \o <<"group_failed", "process_pdfs_failed">>
                      ELSE log
    /\ UNCHANGED <<collection0, retr_vars, ext_vars, clock_vars>>
    /\ UNCHANGED <<entry, directory, file_group_num, batch_num, chunksize,
                   overlap, pdf_files, i, group, j, pdf_contents, docs,
                   batch_size, bi, collection, next_id, attempted, add_calls,
                   store_calls, write_failed>>

\* insert_docs_chromadb hands control back: to process_pdfs_group (which
\* catches what it raised, lines 204-205) or to the direct caller
InsertReturn ==
    /\ pc \in {"insert_returned", "insert_raised"}
    /\ IF entry = "process_pdfs"
       THEN /\ pc' = "group_return"
            /\ group_calls' = IF pc = "insert_raised"
                               THEN EndGroup("write_failed", Len(add_calls) - 1)
                               ELSE EndGroup("ok", Len(add_calls))
            /\ log' = IF pc = "insert_raised"
                      THEN Append(log, "group_failed") ELSE log
            /\ UNCHANGED result
       ELSE /\ pc' = IF pc = "insert_raised" THEN "Raised" ELSE "Done"
            /\ result' = IF pc = "insert_raised" THEN "raised" ELSE "returned"
            /\ UNCHANGED <<group_calls, log>>
    /\ UNCHANGED <<collection0, retr_vars, ext_vars, clock_vars>>
    /\ UNCHANGED <<entry, directory, file_group_num, batch_num, chunksize,
                   overlap, pdf_files, i, group, j, pdf_contents, docs,
                   batch_size, bi, collection, next_id, attempted, add_calls,
                   store_calls, write_failed>>

(***************************************************************************)
(* ChromaManager.add_documents called directly                             *)
(***************************************************************************)
AddDocuments ==
    /\ pc = "add_documents"
    /\ \E ok \in BOOLEAN : \E kept \in 0..Len(docs) :
         /\ ok => kept = Len(docs)
         /\ LET r == add_documents(docs, ok, kept)
            IN  /\ store_calls' = store_calls + (IF r.store_called THEN 1 ELSE 0)
                /\ collection' = collection \o r.stored
                /\ next_id' = next_id + Len(r.stored)
                /\ write_failed' = r.raised
                /\ log' = IF r.raised THEN Append(log, "add_failed")
                          ELSE IF docs = <<>> THEN Append(log, "empty_add")
                          ELSE log
                /\ pc' = IF r.raised THEN "Raised" ELSE "Done"
                /\ result' = IF r.raised THEN "raised" ELSE "returned"
                /\ ret' = r.ret
    /\ UNCHANGED <<collection0, top_k, op, query_calls, store_result, ext_vars,
                   clock_vars>>
    /\ UNCHANGED <<entry, directory, file_group_num, batch_num, chunksize,
                   overlap, pdf_files, i, group, j, pdf_contents, docs,
                   batch_size, bi, attempted, group_calls, add_calls>>

Next ==
    \/ ProcessPdfs
    \/ GroupLoop
    \/ LoadPdfContent
    \/ SplitText
    \/ GroupReturn
    \/ InsertEntry
    \/ InsertBatch
    \/ InsertReturn
    \/ AddDocuments

Spec == Init /\ [][Next]_vars

(***************************************************************************)
(* insert_docs_chromadb called directly under a clock whose readings vary  *)
(* (time.time() is not monotonic, so a reading may lie before start_time). *)
(***************************************************************************)
InitClock ==
    /\ entry = "insert_docs_chromadb" /\ pc = "insert_entry"
    /\ directory = <<>>
    /\ file_group_num = 1 /\ batch_num = 1 /\ chunksize = 3 /\ overlap = 1
    /\ \E n \in 0..MaxDirect : docs = DirectDocs(n)
    /\ batch_size \in 1..MaxBatchNum
    /\ clock = 0..MaxClock
    /\ InitCommon

NextClock ==
    \/ InsertEntry
    \/ InsertBatch
    \/ InsertReturn

SpecClock == InitClock /\ [][NextClock]_vars

(***************************************************************************)
(* PDFProcessor.split_text called on one page, for every page text over a  *)
(* small alphabet and every chunk size and overlap with 0 <= o < c.        *)
(***************************************************************************)
Alphabet == {"a", " ", "\n"}

PageStrings == UNION {[1..n -> Alphabet] : n \in 0..MaxPageLen}

APage(text) == [page_content |-> text, source |-> <<"f">>, page |-> 0]

InitSplit ==
    /\ entry = "split_text" /\ pc = "split_page"
    /\ page_text \in PageStrings
    /\ chunksize \in 1..MaxChunk
    /\ overlap \in 0..(chunksize - 1)
    /\ page_chunks = <<>>
    /\ config = [server_type |-> "local"]
    /\ client = "created" /\ store_obj = "created"
    /\ returned = {}
    /\ request = [endpoint |-> "none"] /\ response = [status |-> 0]
    /\ retriever_calls = <<>>
    /\ docs = <<>>
    /\ collection = <<>> /\ collection0 = <<>> /\ next_id = 0
    /\ top_k = 0
    /\ InitIdle

\* split_text, lines 119-143, on the one-page list [page]
SplitPage ==
    /\ pc = "split_page"
    /\ page_chunks' = split_documents(<<APage(page_text)>>, chunksize, overlap)
    /\ result' = "returned"
    /\ pc' = "Done"
    /\ UNCHANGED <<entry, directory, file_group_num, batch_num, chunksize,
                   overlap, pdf_files, i, group, j, pdf_contents, docs,
                   batch_size, bi, collection, collection0, next_id, attempted,
                   group_calls, add_calls, store_calls, write_failed, log,
                   retr_vars, config, client, store_obj, returned, page_text,
                   request, response, retriever_calls, clock_vars>>

NextSplit == SplitPage

SpecSplit == InitSplit /\ [][NextSplit]_vars

(***************************************************************************)
(* ChromaManager.add_documents called repeatedly on one collection, with   *)
(* lists of strings, dicts and Document objects, mixed lists included.     *)
(* The inputs carry no identifier of their own: nothing in the repository  *)
(* sets Document.id, and the "id" that _prepare_documents puts in the      *)
(* metadata of a string is not the identifier of the stored entry.         *)
(***************************************************************************)
InputItems ==
    {[kind |-> "str", page_content |-> <<"d">>, source |-> <<>>],
     [kind |-> "dict", page_content |-> <<"d">>, source |-> <<>>],
     [kind |-> "Document", page_content |-> <<"d">>, source |-> <<"f">>]}

InputLists == UNION {[1..n -> InputItems] : n \in 0..MaxInputs}

\* _prepare_documents, lines 112-135: the type of docs[0] alone picks the
\* conversion; an item of another type makes the conversion raise
prepare_documents(ds) ==
    IF ds = <<>> THEN [raised |-> FALSE, docs |-> <<>>]
    ELSE IF ds[1].kind = "Document" THEN [raised |-> FALSE, docs |-> ds]
    ELSE IF ds[1].kind = "str"
    THEN IF \A n \in 1..Len(ds) : ds[n].kind = "str"
         THEN [raised |-> FALSE,
               docs |-> [n \in 1..Len(ds) |->
                           [kind |-> "Document",
                            page_content |-> ds[n].page_content,
                            source |-> <<"user_input">>]]]
         ELSE [raised |-> TRUE, docs |-> <<>>]
    ELSE IF \A n \in 1..Len(ds) : ds[n].kind = "dict"
         THEN [raised |-> FALSE,
               docs |-> [n \in 1..Len(ds) |->
                           [kind |-> "Document",
                            page_content |-> ds[n].page_content,
                            source |-> ds[n].source]]]
         ELSE [raised |-> TRUE, docs |-> <<>>]

\* add_documents, lines 100-110, on a list of any of the accepted types;
\* a list the store cannot read raises before anything is written
add_documents_any(ds, ok, kept) ==
    LET p == prepare_documents(ds)
    IN  IF ds # <<>> /\ (p.raised
                          \/ \E n \in 1..Len(p.docs) : p.docs[n].kind # "Document")
        THEN [ret |-> <<>>, raised |-> TRUE, store_called |-> ~p.raised,
              stored |-> <<>>]
        ELSE add_documents(p.docs, ok, kept)

InitStore ==
    /\ entry = "add_documents" /\ pc = "ready"
    /\ config = [server_type |-> "local"]
    /\ client = "created" /\ store_obj = "created"
    /\ returned = {}
    /\ page_text = <<>> /\ page_chunks = <<>>
    /\ request = [endpoint |-> "none"] /\ response = [status |-> 0]
    /\ retriever_calls = <<>>
    /\ chunksize = 3 /\ overlap = 1 /\ docs = <<>>
    /\ collection = <<>> /\ collection0 = <<>> /\ next_id = 0
    /\ top_k = 0
    /\ InitIdle

\* one call that hands out the identifiers of the call before it again
AddDocumentsCallStale(ds, ok, kept) ==
    /\ pc = "ready"
    /\ next_id + Len(ds) <= MaxIds
    /\ ok => kept = Len(ds)
    /\ LET r == add_documents_any(ds, ok, kept)
       IN  /\ docs' = ds
           /\ collection0' = collection
           /\ collection' = collection \o r.stored
           /\ next_id' = next_id
           /\ returned' = returned \cup Range(ret)
           /\ ret' = r.ret
           /\ write_failed' = r.raised
           /\ result' = IF r.raised THEN "raised" ELSE "returned"
    /\ UNCHANGED <<entry, pc, directory, file_group_num, batch_num, chunksize,
                   overlap, pdf_files, i, group, j, pdf_contents, batch_size,
                   bi, attempted, group_calls, add_calls, store_calls, log,
                   top_k, op, query_calls, store_result, config, client,
                   store_obj, page_text, page_chunks, request, response,
                   retriever_calls, clock_vars>>

\* one call of add_documents, lines 90-110; returned collects what the
\* calls before it returned
AddDocumentsCall(ds, ok, kept) ==
    /\ pc = "ready"
    /\ next_id + Len(ds) <= MaxIds
    /\ ok => kept = Len(ds)
    /\ LET r == add_documents_any(ds, ok, kept)
       IN  /\ docs' = ds
           /\ collection0' = collection
           /\ collection' = collection \o r.stored
           /\ next_id' = next_id + Len(r.stored)
           /\ returned' = returned \cup Range(ret)
           /\ ret' = r.ret
           /\ write_failed' = r.raised
           /\ result' = IF r.raised THEN "raised" ELSE "returned"
    /\ UNCHANGED <<entry, pc, directory, file_group_num, batch_num, chunksize,
                   overlap, pdf_files, i, group, j, pdf_contents, batch_size,
                   bi, attempted, group_calls, add_calls, store_calls, log,
                   top_k, op, query_calls, store_result, config, client,
                   store_obj, page_text, page_chunks, request, response,
                   retriever_calls, clock_vars>>

NextStore ==
    \E ds \in InputLists : \E ok \in BOOLEAN : \E kept \in 0..Len(ds) :
        AddDocumentsCall(ds, ok, kept)

SpecStore == InitStore /\ [][NextStore]_vars

(***************************************************************************)
(* ChromaManager.__init__ (chroma_manager.py).  A parameter is None or a   *)
(* value; Python's truth test takes None, "" and 0 as false.               *)
(***************************************************************************)
NoStr == [none |-> TRUE, v |-> ""]
Str(t) == [none |-> FALSE, v |-> t]
NoInt == [none |-> TRUE, v |-> 0]
Int_(n) == [none |-> FALSE, v |-> n]

\* bool(x) of an optional string
truthy_str(x) == ~x.none /\ x.v # ""

\* bool(x) of an optional integer
truthy_int(x) == ~x.none /\ x.v # 0

ServerTypes == {"local", "http", "grpc"}
Hosts == {NoStr, Str(""), Str("localhost")}
Ports == {NoInt, Int_(0), Int_(8000)}
Paths == {NoStr, Str(""), Str("chroma_db")}

Configs ==
    [server_type : ServerTypes, host : Hosts, port : Ports, path : Paths]

\* lines 58-67 with any() in place of all() in the http test
validate_init_params_any(server_type, host, port, path) ==
    IF server_type \notin {"local", "http"} THEN "ValueError"
    ELSE IF server_type = "http" /\ ~(truthy_str(host) \/ truthy_int(port))
    THEN "ValueError"
    ELSE IF server_type = "local" /\ ~truthy_str(path) THEN "ValueError"
    ELSE "ok"

\* _validate_init_params, lines 58-67: "ok", or the exception raised
validate_init_params(server_type, host, port, path) ==
    IF server_type \notin {"local", "http"} THEN "ValueError"
    ELSE IF server_type = "http" /\ ~(truthy_str(host) /\ truthy_int(port))
    THEN "ValueError"
    ELSE IF server_type = "local" /\ ~truthy_str(path) THEN "ValueError"
    ELSE "ok"

InitManager ==
    /\ entry = "ChromaManager" /\ pc = "init"
    /\ config \in Configs
    /\ client = "none" /\ store_obj = "none"
    /\ returned = {}
    /\ page_text = <<>> /\ page_chunks = <<>>
    /\ request = [endpoint |-> "none"] /\ response = [status |-> 0]
    /\ retriever_calls = <<>>
    /\ chunksize = 3 /\ overlap = 1 /\ docs = <<>>
    /\ collection = <<>> /\ collection0 = <<>> /\ next_id = 0
    /\ top_k = 0
    /\ InitIdle

\* __init__, lines 39-56: validation, then _create_client (lines 69-88,
\* which re-raises what the chromadb constructor raised), then Chroma(...)
\* whose failure is wrapped in RuntimeError
ChromaManagerInit(client_ok, store_ok) ==
    /\ pc = "init"
    /\ LET v == validate_init_params(config.server_type, config.host,
                                     config.port, config.path)
       IN  IF v # "ok"
           THEN /\ result' = v /\ pc' = "Raised"
                /\ UNCHANGED <<client, store_obj>>
           ELSE IF ~client_ok
           THEN /\ client' = "failed"
                /\ result' = "ClientError" /\ pc' = "Raised"
                /\ UNCHANGED store_obj
           ELSE IF ~store_ok
           THEN /\ client' = "created" /\ store_obj' = "failed"
                /\ result' = "RuntimeError" /\ pc' = "Raised"
           ELSE /\ client' = "created" /\ store_obj' = "created"
                /\ result' = "returned" /\ pc' = "Done"
    /\ UNCHANGED <<entry, directory, file_group_num, batch_num, chunksize,
                   overlap, pdf_files, i, group, j, pdf_contents, docs,
                   batch_size, bi, collection, collection0, next_id, attempted,
                   group_calls, add_calls, store_calls, write_failed, log,
                   retr_vars, config, returned, page_text, page_chunks,
                   request, response, retriever_calls, clock_vars>>

NextManager == \E client_ok \in BOOLEAN, store_ok \in BOOLEAN :
                  ChromaManagerInit(client_ok, store_ok)

SpecManager == InitManager /\ [][NextManager]_vars

(***************************************************************************)
(* VectorRetriever.  The retriever's collection is `collection`; documents *)
(* reach it through add_documents on its ChromaManager.  A metadata value  *)
(* is [none, fields]: Python's None, or a dict given as its set of items.  *)
(***************************************************************************)
NoMeta == [none |-> TRUE, fields |-> {}]
EmptyDict == [none |-> FALSE, fields |-> {}]
Dict(items) == [none |-> FALSE, fields |-> items]

\* Python's `m or {}`
or_empty(m) == IF m.none \/ m.fields = {} THEN EmptyDict ELSE m

NoKeyword == [none |-> TRUE, text |-> <<>>]
Keyword(t) == [none |-> FALSE, text |-> t]

\* Python truthiness of an Optional[str]
truthy(k) == ~k.none /\ k.text # <<>>

DocTexts == { <<"A", "b">>, <<"b", "a">>, <<"B">> }
Metadatas == { NoMeta, Dict({<<"source", "s1">>}) }
Keywords ==
    { NoKeyword, Keyword(<<>>), Keyword(<<"a">>), Keyword(<<"b", "A">>) }
Filters == { NoMeta, Dict({<<"source", "s1">>}) }
Queries == { <<"a">> }

\* the store's `where`: every given key/value pair is in the entry's metadata
matches(e, where) == where.none \/ where.fields \subseteq e.doc.metadata.fields

Matching(where) == {n \in 1..Len(collection) : matches(collection[n], where)}

\* collection.query(query_embeddings, n_results, where): the n_results
\* nearest matching entries, nearest first; which entries are nearest is the
\* embedding's business, so every ranking is possible
QueryAnswers(n_results, where) ==
    LET m == Cardinality(Matching(where))
        len == Min(n_results, m)
    IN  {[n \in 1..len |-> collection[f[n]]] :
            f \in {g \in [1..len -> Matching(where)] :
                      \A a, b \in 1..len : a # b => g[a] # g[b]}}

\* the conversion loop run over the outer list of the answer (one query)
to_documents_outer(answer) ==
    [n \in 1..Min(1, Len(answer)) |->
        [page_content |-> answer[n].doc.page_content,
         metadata |-> or_empty(answer[n].doc.metadata)]]

\* lines 47-56: the store's answer turned into Documents
to_documents(answer) ==
    [n \in 1..Len(answer) |->
        [page_content |-> answer[n].doc.page_content,
         metadata |-> or_empty(answer[n].doc.metadata)]]

\* the keyword filter comparing the text as stored
hybrid_filter_cased(vector_results, keyword, k) ==
    IF truthy(keyword)
    THEN Slice(SelectSeq(vector_results,
                         LAMBDA d : str_in(lower(keyword.text), d.page_content)),
               0, k)
    ELSE vector_results

\* lines 69-76: the keyword filter of hybrid_search
hybrid_filter(vector_results, keyword, k) ==
    IF truthy(keyword)
    THEN Slice(SelectSeq(vector_results,
                         LAMBDA d : str_in(lower(keyword.text),
                                           lower(d.page_content))),
               0, k)
    ELSE vector_results

\* collection.get(ids=[doc_id]): the entries stored under that identifier
get_ids(doc_id) == SelectSeq(collection, LAMBDA e : e.id = doc_id)

\* get_by_id without the test for an empty answer
get_by_id_unchecked(doc_id) ==
    LET found == IF get_ids(doc_id) = <<>> THEN collection ELSE get_ids(doc_id)
    IN  IF found = <<>> THEN <<>>
        ELSE <<[page_content |-> found[1].doc.page_content,
                metadata |-> or_empty(found[1].doc.metadata)]>>

\* get_by_id, lines 80-87; None is the empty list here, a Document a
\* one-element list
get_by_id(doc_id) ==
    LET found == get_ids(doc_id)
    IN  IF found = <<>> THEN <<>>
        ELSE <<[page_content |-> found[1].doc.page_content,
                metadata |-> or_empty(found[1].doc.metadata)]>>

InitRetriever ==
    /\ entry = "retriever" /\ pc = "ready"
    /\ directory = <<>>
    /\ file_group_num = 1 /\ batch_num = 1 /\ chunksize = 3 /\ overlap = 1
    /\ docs = <<>> /\ batch_size = 1
    /\ pdf_files = <<>> /\ i = 0 /\ group = <<>> /\ j = 0
    /\ pdf_contents = <<>> /\ bi = 0
    /\ collection = <<>> /\ collection0 = <<>> /\ next_id = 1
    /\ attempted = <<>> /\ group_calls = <<>> /\ add_calls = <<>>
    /\ store_calls = 0 /\ write_failed = FALSE /\ log = <<>>
    /\ result = "none"
    /\ top_k \in 1..MaxTopK
    /\ op = [name |-> "none"] /\ ret = <<>>
    /\ query_calls = <<>> /\ store_result = <<>>
    /\ InitExt
    /\ clock = {0} /\ start_time = 0 /\ tpm = NoTpm

run_vars ==
    <<entry, pc, directory, file_group_num, batch_num, chunksize, overlap,
      pdf_files, i, group, j, pdf_contents, docs, batch_size, bi, attempted,
      group_calls, add_calls, write_failed, log, collection0, ext_vars,
      clock_vars>>

\* one document written to the retriever's collection by add_documents
StoreDocument ==
    /\ pc = "ready"
    /\ Len(collection) < MaxStored
    /\ \E t \in DocTexts, m \in Metadatas :
         LET r == add_documents(<<[page_content |-> t, metadata |-> m]>>, TRUE, 1)
         IN  /\ collection' = collection \o r.stored
             /\ next_id' = next_id + Len(r.stored)
             /\ store_calls' = store_calls + 1
             /\ op' = [name |-> "add_documents"]
             /\ ret' = r.ret
    /\ result' = "returned"
    /\ query_calls' = <<>>
    /\ store_result' = <<>>
    /\ UNCHANGED <<run_vars, top_k>>

\* VectorRetriever.similarity_search, lines 35-56
SimilaritySearch ==
    /\ pc = "ready"
    /\ \E q \in Queries, where \in Filters :
         \E answer \in QueryAnswers(top_k, where) :
           /\ op' = [name |-> "similarity_search", query |-> q,
                     keyword |-> NoKeyword, where |-> where]
           /\ query_calls' = <<top_k>>
           /\ store_result' = answer
           /\ ret' = to_documents(answer)
    /\ result' = "returned"
    /\ UNCHANGED <<run_vars, collection, next_id, store_calls, top_k>>

\* VectorRetriever.hybrid_search, lines 66-76
HybridSearch ==
    /\ pc = "ready"
    /\ \E q \in Queries, keyword \in Keywords, where \in Filters :
         \E answer \in QueryAnswers(top_k, where) :
           /\ op' = [name |-> "hybrid_search", query |-> q,
                     keyword |-> keyword, where |-> where]
           /\ query_calls' = <<top_k>>
           /\ store_result' = answer
           /\ ret' = hybrid_filter(to_documents(answer), keyword, top_k)
    /\ result' = "returned"
    /\ UNCHANGED <<run_vars, collection, next_id, store_calls, top_k>>

\* VectorRetriever.get_by_id, lines 80-87
GetById ==
    /\ pc = "ready"
    /\ \E doc_id \in 0..(MaxStored + 1) :
         /\ op' = [name |-> "get_by_id", doc_id |-> doc_id]
         /\ store_result' = get_ids(doc_id)
         /\ ret' = get_by_id(doc_id)
    /\ query_calls' = <<>>
    /\ result' = "returned"
    /\ UNCHANGED <<run_vars, collection, next_id, store_calls, top_k>>

NextRetriever ==
    \/ StoreDocument
    \/ SimilaritySearch
    \/ HybridSearch
    \/ GetById

SpecRetriever == InitRetriever /\ [][NextRetriever]_vars

(***************************************************************************)
(* The retrieval API (retrieval_api.py): one request served by /search or  *)
(* /document/{doc_id} over a collection that holds some entries whose      *)
(* source is GB and possibly one whose source is not.  A query is known by *)
(* its length, the only thing the endpoint reads from it; the store ranks  *)
(* matching entries in insertion order; lookup_ok = FALSE is a store that  *)
(* raises.                                                                 *)
(***************************************************************************)
QueryMaxLen == 500     \* search_documents: the longest query served
QueryMinLen == 1       \* QueryRequest.query: min_length
TopKMax == 20          \* QueryRequest.top_k: le
TopKDefault == 5       \* QueryRequest.top_k: default
RetrieverTopK == 10    \* initialize_retriever: top_k of the retriever

AbsentTopK == [given |-> FALSE, none |-> TRUE, v |-> 0]
NullTopK == [given |-> TRUE, none |-> TRUE, v |-> 0]
TopK(k) == [given |-> TRUE, none |-> FALSE, v |-> k]

QueryLens == {0, QueryMinLen, QueryMaxLen, QueryMaxLen + 1}
TopKs == {AbsentTopK, NullTopK} \cup {TopK(k) : k \in -1..(TopKMax + 1)}
ApiKeywords == {NoKeyword, Keyword(<<"D">>), Keyword(<<"z">>)}
ApiFilters == {NoMeta, EmptyDict, Dict({<<"source", "GB">>})}

SearchRequests ==
    [endpoint : {"search"}, query_len : QueryLens, top_k : TopKs,
     keyword_filter : ApiKeywords, metadata_filter : ApiFilters, doc_id : {0}]

ApiDoc(src) ==
    [page_content |-> <<"d">>, metadata |-> Dict({<<"source", src>>})]

ApiCollection(gb, other) ==
    with_ids([n \in 1..(gb + other) |->
                 IF n <= other THEN ApiDoc("X") ELSE ApiDoc("GB")], 0)

\* QueryRequest, lines 48-53: the parsed top_k, absent taking the default
parse_top_k(raw) ==
    IF raw.given THEN [none |-> raw.none, v |-> raw.v]
    ELSE [none |-> FALSE, v |-> TopKDefault]

\* QueryRequest with le=20 read as lt=20
request_valid_lt(req) ==
    /\ req.query_len >= QueryMinLen
    /\ LET k == parse_top_k(req.top_k)
       IN  k.none \/ (k.v > 0 /\ k.v < TopKMax)

\* QueryRequest, lines 48-53: the validation made before the handler runs
request_valid(req) ==
    /\ req.query_len >= QueryMinLen
    /\ LET k == parse_top_k(req.top_k)
       IN  k.none \/ (k.v > 0 /\ k.v <= TopKMax)

\* collection.query as the API's store answers it
nearest(n_results, where) ==
    Slice(SelectSeq(collection, LAMBDA e : matches(e, where)), 0, n_results)

\* docs[:request.top_k]
first_k(ds, k) == IF k.none THEN ds ELSE Slice(ds, 0, k.v)

\* lines 131-142: the response entries, score read from the metadata
format_results(ds) ==
    [n \in 1..Len(ds) |->
        [content |-> ds[n].page_content, metadata |-> ds[n].metadata,
         score |-> 0]]

InitApi ==
    /\ entry = "api" /\ pc = "serving"
    /\ \E gb \in 0..MaxApiStored, other \in 0..1 :
          collection = ApiCollection(gb, other)
    /\ collection0 = collection
    /\ next_id = Len(collection)
    /\ top_k = RetrieverTopK
    /\ request = [endpoint |-> "none"] /\ response = [status |-> 0]
    /\ retriever_calls = <<>>
    /\ config = [server_type |-> "local"]
    /\ client = "created" /\ store_obj = "created"
    /\ returned = {}
    /\ page_text = <<>> /\ page_chunks = <<>>
    /\ chunksize = 3 /\ overlap = 1 /\ docs = <<>>
    /\ InitIdle

api_frame ==
    <<entry, directory, file_group_num, batch_num, chunksize, overlap,
      pdf_files, i, group, j, pdf_contents, docs, batch_size, bi, collection,
      collection0, next_id, attempted, group_calls, add_calls, store_calls,
      write_failed, log, top_k, op, config, client, store_obj, returned,
      page_text, page_chunks, clock_vars>>

\* POST /search, lines 101-154, with the validation of QueryRequest that
\* precedes it (a request that fails it is answered 422)
SearchDocuments(req, lookup_ok) ==
    /\ pc = "serving"
    /\ request' = req
    /\ pc' = "Done"
    /\ IF ~request_valid(req)
       THEN /\ response' = [status |-> 422, results |-> <<>>]
            /\ retriever_calls' = <<>>
            /\ UNCHANGED <<query_calls, store_result, ret>>
       ELSE IF req.query_len > QueryMaxLen
       THEN /\ response' = [status |-> 400, results |-> <<>>]
            /\ retriever_calls' = <<>>
            /\ UNCHANGED <<query_calls, store_result, ret>>
       ELSE
         LET hybrid == truthy(req.keyword_filter)
                         \/ ~(req.metadata_filter.none
                              \/ req.metadata_filter.fields = {})
             answer == nearest(top_k, req.metadata_filter)
             found == IF hybrid
                      THEN hybrid_filter(to_documents(answer),
                                         req.keyword_filter, top_k)
                      ELSE to_documents(answer)
         IN  /\ retriever_calls' =
                  <<[name |-> IF hybrid THEN "hybrid_search"
                              ELSE "similarity_search",
                     raised |-> ~lookup_ok]>>
             /\ query_calls' = <<top_k>>
             /\ IF lookup_ok
                THEN /\ store_result' = answer
                     /\ ret' = found
                     /\ response' =
                          [status |-> 200,
                           results |-> format_results(
                                          first_k(found, parse_top_k(req.top_k)))]
                ELSE /\ store_result' = <<>>
                     /\ ret' = <<>>
                     /\ response' = [status |-> 500, results |-> <<>>]
    /\ result' = "returned"
    /\ UNCHANGED api_frame

\* GET /document/{doc_id}, lines 161-182: the HTTPException(404) raised in
\* the try block is caught by `except Exception` and answered as 500
GetDocument(doc_id, lookup_ok) ==
    /\ pc = "serving"
    /\ request' = [endpoint |-> "document", query_len |-> 0,
                   top_k |-> AbsentTopK, keyword_filter |-> NoKeyword,
                   metadata_filter |-> NoMeta, doc_id |-> doc_id]
    /\ pc' = "Done"
    /\ retriever_calls' = <<[name |-> "get_by_id", raised |-> ~lookup_ok]>>
    /\ IF ~lookup_ok
       THEN /\ store_result' = <<>> /\ ret' = <<>>
            /\ response' = [status |-> 500, results |-> <<>>]
       ELSE /\ store_result' = get_ids(doc_id)
            /\ ret' = get_by_id(doc_id)
            /\ response' =
                 IF get_by_id(doc_id) = <<>>
                 THEN [status |-> 500, results |-> <<>>]
                 ELSE [status |-> 200,
                       results |-> <<[content |-> get_by_id(doc_id)[1].page_content,
                                      metadata |-> get_by_id(doc_id)[1].metadata,
                                      score |-> 1]>>]
    /\ result' = "returned"
    /\ UNCHANGED <<api_frame, query_calls>>

NextApi ==
    \/ \E req \in SearchRequests, lookup_ok \in BOOLEAN :
          SearchDocuments(req, lookup_ok)
    \/ \E doc_id \in {0, 1, Len(collection)}, lookup_ok \in BOOLEAN :
          GetDocument(doc_id, lookup_ok)

SpecApi == InitApi /\ [][NextApi]_vars

(***************************************************************************)
(* Properties.                                                             *)
(***************************************************************************)
Failed == {"load_failed", "split_failed", "write_failed"}

\* the files of the group calls made so far, in call order
GroupedFiles == Flatten([n \in 1..Len(group_calls) |-> group_calls[n].files])

\* the names a case-insensitive ".pdf" suffix test accepts
PdfSuffixes ==
    {<<".", p, d, f>> : p \in {"p", "P"}, d \in {"d", "D"}, f \in {"f", "F"}}

HasPdfSuffix(name) == \E suf \in PdfSuffixes : endswith(name, suf)

\* the scan order: the names with a .pdf suffix, as listed
ScanOrder ==
    SelectSeq([n \in 1..Len(directory) |-> directory[n].name], HasPdfSuffix)

\* the chunks a group yields when nothing fails
GroupChunks(files) ==
    split_documents(Flatten([n \in 1..Len(files) |-> load_pdf_content(files[n])]),
                    chunksize, overlap)

\* what the call in progress has added to the collection
RunStored ==
    [n \in 1..(Len(collection) - Len(collection0)) |->
        collection[Len(collection0) + n].doc]

\* C1: a failure while one group is processed (load, split or store write)
\* is caught in process_pdfs_group and does not stop the run: process_pdfs
\* raises only from the scan (before any group), the loading loop (the one
\* step with a condition beyond its position) can always take its step, each
\* group call gets the next file_group_num files of the scan, and a
\* finished run has called process_pdfs_group on every group of the scan, in
\* scan order, whatever the earlier groups' outcomes.
C1_GroupFailureIsolated ==
    entry = "process_pdfs" =>
      /\ pc = "Raised" => group_calls = <<>>
      /\ pc = "load" => j < Len(group)
      /\ \A n \in 1..Len(group_calls) :
           /\ group_calls[n].files =
                Slice(ScanOrder, (n - 1) * file_group_num, n * file_group_num)
           /\ group_calls[n].files # <<>>
      /\ pc = "Done" =>
           /\ result = "returned"
           /\ GroupedFiles = ScanOrder

\* C1 witness: a finished run of three groups whose first group failed on
\* its store write, whose second failed to load, and whose third was written
C1_Witness ==
    /\ entry = "process_pdfs" /\ pc = "Done" /\ Len(group_calls) = 3
    /\ group_calls[1].outcome = "write_failed"
    /\ group_calls[2].outcome = "load_failed"
    /\ group_calls[3].outcome = "ok" /\ group_calls[3].batches_ok > 0

\* C2 (as claimed): when the run is Done, every scanned file has been
\* passed to load_pdf_content exactly once.
C2_EveryFileAttemptedOnce ==
    (entry = "process_pdfs" /\ pc = "Done") =>
      \A n \in 1..Len(pdf_files) :
        Cardinality({m \in 1..Len(attempted) : attempted[m] = pdf_files[n]}) = 1

\* C3 (as claimed): a run in which an add_documents call failed does not
\* return normally with its success message.
C3_WriteFailureSurfaced ==
    (entry = "process_pdfs" /\ write_failed) => pc # "Done"

\* the case of C4: a finished run of several groups, exactly one of which
\* failed, on its store write; every other group succeeded
OneWriteFailure ==
    /\ entry = "process_pdfs" /\ pc = "Done" /\ Len(group_calls) >= 2
    /\ Cardinality({n \in 1..Len(group_calls) :
                      group_calls[n].outcome = "write_failed"}) = 1
    /\ \A n \in 1..Len(group_calls) :
         group_calls[n].outcome \in {"ok", "write_failed"}

\* C4 (as claimed): after a run in which one group's store write threw after
\* at least one of its batches was written, the run has persisted exactly
\* the chunks of the other groups.
C4_FailedGroupExcluded ==
    (OneWriteFailure /\ \E n \in 1..Len(group_calls) :
                          /\ group_calls[n].outcome = "write_failed"
                          /\ group_calls[n].batches_ok > 0) =>
      RunStored =
        Flatten([n \in 1..Len(group_calls) |->
                   IF group_calls[n].outcome = "ok"
                   THEN GroupChunks(group_calls[n].files) ELSE <<>>])

\* C4 (amended): after a run in which exactly one group's store write threw,
\* every chunk of every other group is persisted, and of the failed group
\* exactly a leading part: all chunks of the batches written before the
\* failing batch, possibly followed by leading chunks of the failing batch,
\* and nothing of the batches after it.
C4_FailedGroupKeepsEarlierBatches ==
    OneWriteFailure =>
      \E kept \in 0..batch_num :
        RunStored =
          Flatten([n \in 1..Len(group_calls) |->
                     LET chunks == GroupChunks(group_calls[n].files)
                     IN  IF group_calls[n].outcome = "ok" THEN chunks
                         ELSE SubSeq(chunks, 1,
                                     Min(Len(chunks),
                                         group_calls[n].batches_ok * batch_num
                                           + kept))])

\* C4 witness: the failed group wrote a batch before the failing one, and
\* another group was written in full
C4_Witness ==
    /\ OneWriteFailure
    /\ \E n \in 1..Len(group_calls) :
         /\ group_calls[n].outcome = "write_failed"
         /\ group_calls[n].batches_ok > 0
    /\ \E n \in 1..Len(group_calls) :
         /\ group_calls[n].outcome = "ok"
         /\ group_calls[n].batches_ok > 0

\* C5: an insert of n >= 1 chunks with batch size b in which no write fails
\* makes exactly ceil(n/b) add_documents calls, each with 1..b chunks, all
\* but the last with exactly b, and the batches concatenated in call order
\* are the input list.
C5_BatchesPartitionInput ==
    (pc = "insert_returned" /\ docs # <<>>) =>
      /\ (Len(add_calls) - 1) * batch_size < Len(docs)
      /\ Len(docs) <= Len(add_calls) * batch_size
      /\ \A n \in 1..Len(add_calls) :
           /\ Len(add_calls[n]) >= 1
           /\ Len(add_calls[n]) <= batch_size
           /\ n < Len(add_calls) => Len(add_calls[n]) = batch_size
      /\ Flatten(add_calls) = docs

\* C5 witness: a finished insert of several batches whose last is short
C5_Witness ==
    /\ pc = "insert_returned" /\ Len(add_calls) >= 2
    /\ Len(add_calls[Len(add_calls)]) < batch_size

\* C6: a process_pdfs run on a directory with no entry whose name ends in
\* .pdf (in any letter case) ends by raising the no-PDF error, processes no
\* group, makes no store write and leaves the collection as it was.
C6_NoInputLeavesCollection ==
    (/\ entry = "process_pdfs" /\ pc # "process_pdfs"
     /\ \A n \in 1..Len(directory) : ~HasPdfSuffix(directory[n].name)) =>
      /\ pc = "Raised" /\ result = "raised"
      /\ \E n \in 1..Len(log) : log[n] = "no_pdf_files"
      /\ group_calls = <<>> /\ attempted = <<>>
      /\ store_calls = 0 /\ add_calls = <<>>
      /\ collection = collection0

\* C6 witness: the run on a non-empty directory without PDFs, over a
\* collection that already held an entry, has raised
C6_Witness ==
    /\ entry = "process_pdfs" /\ pc = "Raised"
    /\ directory # <<>> /\ collection0 # <<>>

\* the two letters are the same up to case
SameLetter(a, b) == a = b \/ {a, b} \in {{"a", "A"}, {"b", "B"}}

ContainsIgnoringCase(kw, text) ==
    \E off \in 0..(Len(text) - Len(kw)) :
      \A n \in 1..Len(kw) : SameLetter(kw[n], text[off + n])

C10_EmptyWriteIsNoOp ==
    /\ (entry = "add_documents" /\ docs = <<>> /\ pc # "add_documents") =>
         /\ pc = "Done" /\ result = "returned" /\ ret = <<>>
         /\ store_calls = 0 /\ collection = collection0
    /\ (entry = "insert_docs_chromadb" /\ docs = <<>> /\ pc # "insert_entry") =>
         /\ pc \in {"insert_returned", "Done"} /\ result # "raised"
         /\ add_calls = <<>> /\ store_calls = 0 /\ collection = collection0

\* C10 witness: add_documents([]) has returned over a non-empty collection
C10_Witness ==
    /\ entry = "add_documents" /\ docs = <<>> /\ pc = "Done"
    /\ collection0 # <<>>

\* the batches an insert of ds with batch size b makes, in call order
RECURSIVE ExpectedBatches(_, _)
ExpectedBatches(ds, b) ==
    IF ds = <<>> THEN <<>>
    ELSE <<SubSeq(ds, 1, Min(b, Len(ds)))>>
           \o ExpectedBatches(SubSeq(ds, Min(b, Len(ds)) + 1, Len(ds)), b)

\* C16: throughput accounting has no effect on control flow: whatever the
\* clock reads, the add_documents calls of an insert are the batches fixed
\* by the chunk list and the batch size, an insert raises only because a
\* write failed, and with no elapsed time the rate is 0, not a division
\* error.
C16_AccountingHasNoEffect ==
    entry = "insert_docs_chromadb" =>
      /\ Len(add_calls) <= Len(ExpectedBatches(docs, batch_size))
      /\ add_calls = SubSeq(ExpectedBatches(docs, batch_size), 1, Len(add_calls))
      /\ pc \in {"insert_returned", "Done"} =>
           add_calls = ExpectedBatches(docs, batch_size)
      /\ pc \in {"insert_raised", "Raised"} => write_failed
      /\ ~tpm.error
      /\ tpm.elapsed <= 0 => tpm.rate = <<0, 1>>

\* C16 witness: an insert of several batches has returned after a batch was
\* accounted with no elapsed time
C16_Witness ==
    /\ entry = "insert_docs_chromadb" /\ pc = "insert_returned"
    /\ Len(add_calls) >= 2 /\ store_calls = Len(add_calls)
    /\ start_time > 0 /\ tpm.elapsed = 0

\* the configurations the constructor has to refuse: local mode with an
\* empty persist path, http mode with host or port missing, any other mode
InvalidConfig(c) ==
    \/ c.server_type = "local" /\ (c.path.none \/ c.path.v = "")
    \/ c.server_type = "http"
         /\ (c.host.none \/ c.host.v = "" \/ c.port.none \/ c.port.v = 0)
    \/ c.server_type # "local" /\ c.server_type # "http"

\* C11: ChromaManager construction ends with a configuration error for
\* every invalid configuration, before any client or store is constructed;
\* for every valid configuration validation passes and the construction of
\* the client is attempted.
C11_InvalidConfigRejectedFirst ==
    (entry = "ChromaManager" /\ pc # "init") =>
      /\ InvalidConfig(config) =>
           /\ pc = "Raised" /\ result = "ValueError"
           /\ client = "none" /\ store_obj = "none"
      /\ ~InvalidConfig(config) =>
           /\ result # "ValueError"
           /\ client \in {"created", "failed"}

\* C11 witness: an http configuration with a host but port 0 was refused
C11_Witness ==
    /\ entry = "ChromaManager" /\ pc = "Raised" /\ result = "ValueError"
    /\ config.server_type = "http" /\ config.host = Str("localhost")
    /\ config.port = Int_(0)

\* C12: a successful add_documents on a non-empty list of n inputs returns
\* n identifiers, the n-th naming the entry stored for the n-th input; they
\* are pairwise distinct and distinct from every identifier returned by an
\* earlier add_documents call on the collection.
C12_FreshIdentifiers ==
    (entry = "add_documents" /\ pc = "ready" /\ result = "returned"
       /\ docs # <<>>) =>
      /\ Len(ret) = Len(docs)
      /\ \A n \in 1..Len(ret) :
           \E m \in 1..Len(collection) :
              /\ m > Len(collection0)
              /\ collection[m].id = ret[n]
              /\ collection[m].doc.page_content = docs[n].page_content
      /\ \A n, m \in 1..Len(ret) : n # m => ret[n] # ret[m]
      /\ Range(ret) \cap returned = {}

\* C12 witness: a list of two strings was added after earlier calls, one of
\* them failed half-way, had returned identifiers
C12_Witness ==
    /\ entry = "add_documents" /\ pc = "ready" /\ result = "returned"
    /\ Len(docs) = 2 /\ docs[1].kind = "str"
    /\ returned # {} /\ Len(collection0) > Cardinality(returned)

\* C13 as stated: a page of length 1..c yields exactly one chunk whose text
\* is the page text, and an empty page yields no chunk.
C13_ShortPageIsOneChunk ==
    (entry = "split_text" /\ pc = "Done") =>
      /\ (Len(page_text) >= 1 /\ Len(page_text) <= chunksize) =>
           /\ Len(page_chunks) = 1
           /\ page_chunks[1].page_content = page_text
      /\ page_text = <<>> => page_chunks = <<>>

\* C13 amended: a page of length 1..c without leading or trailing
\* whitespace yields exactly one chunk whose text is the page text, and an
\* empty page yields no chunk; for c >= 2, a page of length 1..c yields one
\* chunk, the page text with leading and trailing whitespace removed, or no
\* chunk when the page is whitespace only.
C13_ShortPageIsOneStrippedChunk ==
    (entry = "split_text" /\ pc = "Done" /\ Len(page_text) <= chunksize) =>
      /\ page_text = <<>> => page_chunks = <<>>
      /\ (page_text # <<>> /\ strip(page_text) = page_text) =>
           /\ Len(page_chunks) = 1
           /\ page_chunks[1].page_content = page_text
      /\ (page_text # <<>> /\ chunksize >= 2) =>
           IF strip(page_text) = <<>>
           THEN page_chunks = <<>>
           ELSE /\ Len(page_chunks) = 1
                /\ page_chunks[1].page_content = strip(page_text)

\* C13 witness: a page exactly as long as the chunk size, with a blank at
\* its end, came out as one chunk
C13_Witness ==
    /\ entry = "split_text" /\ pc = "Done"
    /\ Len(page_text) = chunksize /\ chunksize >= 3
    /\ page_text[Len(page_text)] = " " /\ Len(page_chunks) = 1

\* C14: the chunks of a page have start_index >= 0, non-decreasing in
\* output order, and the last o characters of each chunk are the first o
\* characters of the chunk after it.
C14_OffsetsOrderedAndOverlapExact ==
    (entry = "split_text" /\ pc = "Done") =>
      /\ \A n \in 1..Len(page_chunks) : page_chunks[n].start_index >= 0
      /\ \A n \in 1..(Len(page_chunks) - 1) :
           /\ page_chunks[n].start_index <= page_chunks[n + 1].start_index
           /\ LET a == page_chunks[n].page_content
                  b == page_chunks[n + 1].page_content
              IN  /\ Len(a) >= overlap /\ Len(b) >= overlap
                  /\ SubSeq(a, Len(a) - overlap + 1, Len(a))
                       = SubSeq(b, 1, overlap)

\* the first half of C14 alone: start_index never decreases along the
\* chunks of a page (refuted by "aaa a a" with c = 3, o = 2)
StartIndexNonDecreasing ==
    \A n \in 1..(Len(page_chunks) - 1) :
        page_chunks[n].start_index <= page_chunks[n + 1].start_index

\* the request has been turned away as the caller's mistake
Rejected == response.status \in {400, 422}

\* C15 as stated: a search request is accepted if and only if its query has
\* at most 500 characters and 0 < top_k <= 20, and a rejected request makes
\* no retrieval call.
C15_AcceptedExactlyWithinBounds ==
    (entry = "api" /\ pc = "Done" /\ request.endpoint = "search") =>
      /\ ~Rejected <=>
           /\ request.query_len <= 500
           /\ ~parse_top_k(request.top_k).none
           /\ parse_top_k(request.top_k).v > 0
           /\ parse_top_k(request.top_k).v <= 20
      /\ Rejected => retriever_calls = <<>>

\* C15 amended: a search request is accepted if and only if its query has
\* at least 1 and at most 500 characters and its top_k is null or satisfies
\* 0 < top_k <= 20 (absent, it is 5); a rejected request makes no retrieval
\* call.
C15_AcceptedWithinBoundsNonEmpty ==
    (entry = "api" /\ pc = "Done" /\ request.endpoint = "search") =>
      /\ ~Rejected <=>
           /\ request.query_len >= 1 /\ request.query_len <= 500
           /\ \/ request.top_k = NullTopK
              \/ request.top_k = AbsentTopK
              \/ (request.top_k.v > 0 /\ request.top_k.v <= 20)
      /\ Rejected => retriever_calls = <<>>
      /\ ~Rejected => Len(retriever_calls) = 1

\* C15 witness: a query of 500 characters with top_k = 20 was served
C15_Witness ==
    /\ entry = "api" /\ pc = "Done" /\ request.endpoint = "search"
    /\ request.query_len = 500 /\ request.top_k = TopK(20)
    /\ response.status = 200 /\ Len(response.results) = RetrieverTopK

\* C17: a served /search request with top_k = k in 1..20 and no keyword
\* filter returns exactly min(k, m) results, m the number of entries that
\* match the metadata filter.
C17_SearchReturnsMinKM ==
    (/\ entry = "api" /\ pc = "Done" /\ request.endpoint = "search"
     /\ response.status = 200
     /\ request.keyword_filter = NoKeyword
     /\ request.top_k.given /\ ~request.top_k.none) =>
      Len(response.results)
        = Min(request.top_k.v, Cardinality(Matching(request.metadata_filter)))

\* C18: get_document answers 404 for an identifier with no stored document,
\* 500 only when the lookup raised, and a found document with score 1.0.
C18_NotFoundIsNot500 ==
    (entry = "api" /\ pc = "Done" /\ request.endpoint = "document") =>
      /\ (~retriever_calls[1].raised /\ get_ids(request.doc_id) = <<>>) =>
           response.status = 404
      /\ response.status = 500 => retriever_calls[1].raised
      /\ (~retriever_calls[1].raised /\ get_ids(request.doc_id) # <<>>) =>
           /\ response.status = 200
           /\ Len(response.results) = 1 /\ response.results[1].score = 1

====
